---- MODULE Spec2Model ----
(***************************************************************************)
(* A model of ordered_map::ordered_map_t<Key, Value>: a std::list of       *)
(* (key, value) entries that keeps the order, and a std::map from key to   *)
(* the list iterator of the entry that carries the key.                    *)
(*                                                                         *)
(* List nodes live in a heap `node` addressed by node identifiers; a list  *)
(* iterator is the identifier of the node it points at, or the end         *)
(* sentinel of its list.  Several containers share the heap, so that copy, *)
(* move and merge between two containers are part of the model.            *)
(***************************************************************************)
EXTENDS Integers, Sequences, FiniteSets, TLC

\* Bounds of the model.
MaxKey == 3
MaxValue == 1
MaxNodes == 3

Keys == 1..MaxKey
Values == 0..MaxValue
NodeIds == 1..MaxNodes
\* The container objects of the program: two, so that one can be `other`.
Maps == {1, 2}
\* The sort functions handed to sort(): strict weak orderings over entries.
Comparators == {"key_lt", "key_gt", "val_lt", "val_gt"}

VARIABLES
    heap,   \* the addresses the allocator can hand out for list nodes
    alive,  \* alive[m]: the container object m is constructed and not yet destroyed
    node,   \* the heap: node[n] is the entry (first = key, second = value) held by list node n
    list,   \* list[m]: the member `list` of container m, as the sequence of its nodes
    table,  \* table[m]: the member `table` of container m, key -> list iterator
    last,   \* the operation performed last, its arguments and what it returned
    hist    \* the set() calls made so far, while nothing else has been called

vars == <<heap, alive, node, list, table, last, hist>>

----------------------------------------------------------------------------
\* Helpers on functions and sequences.

EmptyFn == [x \in {} |-> 0]

Put(f, x, y) == [z \in (DOMAIN f) \cup {x} |-> IF z = x THEN y ELSE f[z]]

Drop(f, X) == [z \in (DOMAIN f) \ X |-> f[z]]

Range(s) == {s[i] : i \in DOMAIN s}

\* The one-based position of x in the sequence s, 0 when x is not in s.
PosIn(s, x) == IF \E i \in DOMAIN s : s[i] = x
               THEN CHOOSE i \in DOMAIN s : s[i] = x
               ELSE 0

Without(s, x) == SelectSeq(s, LAMBDA y : y # x)

Min(a, b) == IF a < b THEN a ELSE b

\* The injective sequences of length n over the set X.
Injections(n, X) == {s \in [1..n -> X] : \A i, j \in 1..n : s[i] = s[j] => i = j}

----------------------------------------------------------------------------
\* The containers' state as one value, so that an operation is a function of it.

State == [node |-> node, list |-> list, table |-> table]

\* list.end() of container m.
end(m) == 0 - m

\* The nodes no list owns: what the allocator may hand out next.
FreeNodes(S) == heap \ DOMAIN S.node

\* operator++ on a list iterator: the next node of the list the node is linked in,
\* or that list's end.
Incr(S, it) ==
    LET m == CHOOSE c \in Maps : it \in Range(S.list[c])
        p == PosIn(S.list[m], it)
    IN IF p < Len(S.list[m]) THEN S.list[m][p + 1] ELSE end(m)

size(S, m) == Len(S.list[m])

empty(S, m) == S.list[m] = <<>>

\* list.begin() of container m: the first node, end() when there is none.
begin(S, m) == IF S.list[m] = <<>> THEN end(m) ELSE Head(S.list[m])

\* operator-- on a list iterator of container m that is not begin(): the node
\* before, the last node when the iterator is end().
Decr(S, m, it) ==
    LET p == IF it = end(m) THEN Len(S.list[m]) + 1 ELSE PosIn(S.list[m], it)
    IN S.list[m][p - 1]

\* A reverse iterator is held as its base iterator: rbegin() is
\* reverse_iterator(list.end()) and rend() is reverse_iterator(list.begin());
\* dereferencing reads the entry before the base and ++ decrements the base.
rbegin(S, m) == end(m)

\* rend() built on list.end() instead of list.begin().
rend_is_end(S, m) == end(m)

rend(S, m) == begin(S, m)

rderef(S, m, r) == Decr(S, m, r)

\* n applications of ++ to the iterator it.
RECURSIVE advance(_, _, _)
advance(S, it, n) == IF n = 0 THEN it ELSE advance(S, Incr(S, it), n - 1)

\* n applications of ++ to the reverse iterator r of container m.
RECURSIVE radvance(_, _, _, _)
radvance(S, m, r, n) == IF n = 0 THEN r ELSE radvance(S, m, Decr(S, m, r), n - 1)

\* find() that looks the key up with lower_bound, the first index entry whose key
\* is not less, instead of find.
find_lower_bound(S, m, key) ==
    LET ge == {k \in DOMAIN S.table[m] : k >= key}
    IN IF ge = {} THEN end(m)
       ELSE S.table[m][CHOOSE k \in ge : \A j \in ge : k <= j]

find(S, m, key) ==
    IF key \notin DOMAIN S.table[m] THEN end(m) ELSE S.table[m][key]

\* at() that clamps the position to the last entry, std::min(position, size() - 1),
\* instead of to size().
at_clamps_to_back(S, m, position) ==
    IF S.list[m] = <<>> THEN end(m)
    ELSE S.list[m][Min(position, Len(S.list[m]) - 1) + 1]

\* front(): list.begin().
front(S, m) == begin(S, m)

\* What an operation with undefined behaviour can hand back as an iterator: the
\* end() of a list (a circular list decrements end() of an empty list to itself)
\* or any other iterator value, of a node that is live or of one that is not.
Undefined == {end(c) : c \in Maps} \cup heap

\* back(): std::prev(list.end()), as the set of its possible results.  On an
\* empty list end() is begin() and decrementing it is undefined behaviour.
back(S, m) ==
    IF S.list[m] = <<>> THEN Undefined ELSE {S.list[m][Len(S.list[m])]}

\* has() that looks the key up with table.lower_bound(key) instead of
\* table.find(key).
has_lower_bound(S, m, key) == \E k \in DOMAIN S.table[m] : k >= key

\* has(key): table.find(key) != table.end().
has(S, m, key) == key \in DOMAIN S.table[m]

\* count(key): table.count(key), the number of index entries with the key.
count(S, m, key) == Cardinality({k \in DOMAIN S.table[m] : k = key})

at(S, m, position) ==
    LET d == Min(position, Len(S.list[m]))
    IN IF d < Len(S.list[m]) THEN S.list[m][d + 1] ELSE end(m)

\* index_of() with the arguments of std::distance swapped over the range:
\* std::distance(it, list.end()).
index_of_to_end(S, m, it) ==
    IF it = end(m) THEN 0 ELSE Len(S.list[m]) - PosIn(S.list[m], it) + 1

\* std::distance(list.begin(), it), for an iterator of container m.
index_of(S, m, it) ==
    IF it = end(m) THEN Len(S.list[m]) ELSE PosIn(S.list[m], it) - 1

\* keys() that walks the table, which std::map keeps in key order, instead of the
\* list.
keys_from_table(S, m) ==
    LET D == DOMAIN S.table[m]
    IN [i \in 1..Cardinality(D) |-> CHOOSE k \in D : Cardinality({j \in D : j < k}) = i - 1]

\* The keys and the values in traversal order (begin() to end()).
keys(S, m) == [i \in 1..Len(S.list[m]) |-> S.node[S.list[m][i]].first]

values(S, m) == [i \in 1..Len(S.list[m]) |-> S.node[S.list[m][i]].second]

to_vector(S, m) == [i \in 1..Len(S.list[m]) |-> S.node[S.list[m][i]]]

----------------------------------------------------------------------------
\* clear() that forgets table.clear().
clear_keeps_table(S, m) ==
    [node  |-> Drop(S.node, Range(S.list[m])),
     list  |-> [S.list EXCEPT ![m] = <<>>],
     table |-> S.table,
     ret   |-> 0]

\* clear(): list.clear() destroys every node of the list, table.clear() every
\* index entry.
clear(S, m) ==
    [node  |-> Drop(S.node, Range(S.list[m])),
     list  |-> [S.list EXCEPT ![m] = <<>>],
     table |-> [S.table EXCEPT ![m] = EmptyFn],
     ret   |-> 0]

\* set() that never looks the key up and always inserts a node.
set_always_inserts(S, m, key, value, n) ==
    IF FreeNodes(S) = {} THEN [node |-> S.node, list |-> S.list, table |-> S.table, ret |-> end(m)]
    ELSE LET nn == IF n \in FreeNodes(S) THEN n ELSE CHOOSE x \in FreeNodes(S) : TRUE
         IN [node  |-> Put(S.node, nn, [first |-> key, second |-> value]),
             list  |-> [S.list EXCEPT ![m] = Append(@, nn)],
             table |-> [S.table EXCEPT ![m] = Put(@, key, nn)],
             ret   |-> nn]

\* set() that inserts the new node at list.begin() instead of list.end().
set_prepends(S, m, key, value, n) ==
    IF key \notin DOMAIN S.table[m]
    THEN [node  |-> Put(S.node, n, [first |-> key, second |-> value]),
          list  |-> [S.list EXCEPT ![m] = <<n>> \o @],
          table |-> [S.table EXCEPT ![m] = Put(@, key, n)],
          ret   |-> n]
    ELSE LET it_list == S.table[m][key]
         IN [node  |-> [S.node EXCEPT ![it_list].second = value],
             list  |-> S.list,
             table |-> S.table,
             ret   |-> it_list]

\* set() whose update path also moves the entry to the end of the list.
set_moves_to_back(S, m, key, value, n) ==
    IF key \notin DOMAIN S.table[m]
    THEN [node  |-> Put(S.node, n, [first |-> key, second |-> value]),
          list  |-> [S.list EXCEPT ![m] = Append(@, n)],
          table |-> [S.table EXCEPT ![m] = Put(@, key, n)],
          ret   |-> n]
    ELSE LET it_list == S.table[m][key]
         IN [node  |-> [S.node EXCEPT ![it_list].second = value],
             list  |-> [S.list EXCEPT ![m] = Append(Without(@, it_list), it_list)],
             table |-> S.table,
             ret   |-> it_list]

\* set() that inserts the new node before the last node instead of at list.end().
set_inserts_before_back(S, m, key, value, n) ==
    IF key \notin DOMAIN S.table[m]
    THEN [node  |-> Put(S.node, n, [first |-> key, second |-> value]),
          list  |-> [S.list EXCEPT ![m] =
                        IF @ = <<>> THEN <<n>>
                        ELSE SubSeq(@, 1, Len(@) - 1) \o <<n, @[Len(@)]>>],
          table |-> [S.table EXCEPT ![m] = Put(@, key, n)],
          ret   |-> n]
    ELSE LET it_list == S.table[m][key]
         IN [node  |-> [S.node EXCEPT ![it_list].second = value],
             list  |-> S.list,
             table |-> S.table,
             ret   |-> it_list]

\* set() whose insert path returns list.begin() instead of the iterator of the
\* node it inserted.
set_returns_begin(S, m, key, value, n) ==
    IF key \notin DOMAIN S.table[m]
    THEN [node  |-> Put(S.node, n, [first |-> key, second |-> value]),
          list  |-> [S.list EXCEPT ![m] = Append(@, n)],
          table |-> [S.table EXCEPT ![m] = Put(@, key, n)],
          ret   |-> Head(Append(S.list[m], n))]
    ELSE LET it_list == S.table[m][key]
         IN [node  |-> [S.node EXCEPT ![it_list].second = value],
             list  |-> S.list,
             table |-> S.table,
             ret   |-> it_list]

\* set() whose update path writes the value through list.begin() instead of
\* through the iterator the table holds for the key.
set_updates_front(S, m, key, value, n) ==
    IF key \notin DOMAIN S.table[m]
    THEN [node  |-> Put(S.node, n, [first |-> key, second |-> value]),
          list  |-> [S.list EXCEPT ![m] = Append(@, n)],
          table |-> [S.table EXCEPT ![m] = Put(@, key, n)],
          ret   |-> n]
    ELSE LET it_list == S.table[m][key]
         IN [node  |-> [S.node EXCEPT ![Head(S.list[m])].second = value],
             list  |-> S.list,
             table |-> S.table,
             ret   |-> it_list]

\* set(key, value); n is the node the allocator hands to list.insert on the insert
\* path (unused on the update path).
set(S, m, key, value, n) ==
    IF key \notin DOMAIN S.table[m]
    THEN [node  |-> Put(S.node, n, [first |-> key, second |-> value]),
          list  |-> [S.list EXCEPT ![m] = Append(@, n)],
          table |-> [S.table EXCEPT ![m] = Put(@, key, n)],
          ret   |-> n]
    ELSE LET it_list == S.table[m][key]
         IN [node  |-> [S.node EXCEPT ![it_list].second = value],
             list  |-> S.list,
             table |-> S.table,
             ret   |-> it_list]

\* Value(args...): the value an emplace constructs from its arguments; no argument
\* value-initialises it.
Value(args) == IF args = <<>> THEN 0 ELSE args[1]

\* emplace() that inserts the new node at list.begin() instead of list.end().
emplace_prepends(S, m, key, args, n) ==
    IF key \notin DOMAIN S.table[m]
    THEN [node  |-> Put(S.node, n, [first |-> key, second |-> Value(args)]),
          list  |-> [S.list EXCEPT ![m] = <<n>> \o @],
          table |-> [S.table EXCEPT ![m] = Put(@, key, n)],
          ret   |-> n]
    ELSE LET it_list == S.table[m][key]
         IN [node  |-> [S.node EXCEPT ![it_list].second = Value(args)],
             list  |-> S.list,
             table |-> S.table,
             ret   |-> it_list]

\* emplace() whose insert path forwards no argument to the value's constructor.
emplace_value_initialises(S, m, key, args, n) ==
    IF key \notin DOMAIN S.table[m]
    THEN [node  |-> Put(S.node, n, [first |-> key, second |-> Value(<<>>)]),
          list  |-> [S.list EXCEPT ![m] = Append(@, n)],
          table |-> [S.table EXCEPT ![m] = Put(@, key, n)],
          ret   |-> n]
    ELSE LET it_list == S.table[m][key]
         IN [node  |-> [S.node EXCEPT ![it_list].second = Value(args)],
             list  |-> S.list,
             table |-> S.table,
             ret   |-> it_list]

\* emplace() whose update path splices the entry to the end of the list after
\* rewriting its value.
emplace_moves_to_back(S, m, key, args, n) ==
    IF key \notin DOMAIN S.table[m]
    THEN [node  |-> Put(S.node, n, [first |-> key, second |-> Value(args)]),
          list  |-> [S.list EXCEPT ![m] = Append(@, n)],
          table |-> [S.table EXCEPT ![m] = Put(@, key, n)],
          ret   |-> n]
    ELSE LET it_list == S.table[m][key]
         IN [node  |-> [S.node EXCEPT ![it_list].second = Value(args)],
             list  |-> [S.list EXCEPT ![m] = Append(Without(@, it_list), it_list)],
             table |-> S.table,
             ret   |-> it_list]

\* emplace(key, args...); n as for set.
emplace(S, m, key, args, n) ==
    IF key \notin DOMAIN S.table[m]
    THEN [node  |-> Put(S.node, n, [first |-> key, second |-> Value(args)]),
          list  |-> [S.list EXCEPT ![m] = Append(@, n)],
          table |-> [S.table EXCEPT ![m] = Put(@, key, n)],
          ret   |-> n]
    ELSE LET it_list == S.table[m][key]
         IN [node  |-> [S.node EXCEPT ![it_list].second = Value(args)],
             list  |-> S.list,
             table |-> S.table,
             ret   |-> it_list]

\* erase(key) that forgets table.erase(it_table).
erase_key_keeps_index(S, m, key) ==
    IF key \notin DOMAIN S.table[m]
    THEN [node |-> S.node, list |-> S.list, table |-> S.table, ret |-> end(m)]
    ELSE LET it_table == S.table[m][key]
             it_list  == Incr(S, it_table)
         IN [node  |-> Drop(S.node, {it_table}),
             list  |-> [S.list EXCEPT ![m] = Without(@, it_table)],
             table |-> S.table,
             ret   |-> it_list]

\* erase(key) that erases the node of the advanced iterator, list.erase(it_list),
\* instead of list.erase(it_table->second).
erase_key_erases_next(S, m, key) ==
    IF key \notin DOMAIN S.table[m]
    THEN [node |-> S.node, list |-> S.list, table |-> S.table, ret |-> end(m)]
    ELSE LET it_table == S.table[m][key]
             it_list  == Incr(S, it_table)
         IN [node  |-> Drop(S.node, {it_list}),
             list  |-> [S.list EXCEPT ![m] = Without(@, it_list)],
             table |-> [S.table EXCEPT ![m] = Drop(@, {key})],
             ret   |-> it_list]

\* erase(key) that forgets list.erase(it_table->second).
erase_key_keeps_node(S, m, key) ==
    IF key \notin DOMAIN S.table[m]
    THEN [node |-> S.node, list |-> S.list, table |-> S.table, ret |-> end(m)]
    ELSE LET it_table == S.table[m][key]
             it_list  == Incr(S, it_table)
         IN [node  |-> S.node,
             list  |-> S.list,
             table |-> [S.table EXCEPT ![m] = Drop(@, {key})],
             ret   |-> it_list]

\* erase(key) that erases the front node, list.erase(list.begin()), instead of
\* list.erase(it_table->second).
erase_key_erases_front(S, m, key) ==
    IF key \notin DOMAIN S.table[m]
    THEN [node |-> S.node, list |-> S.list, table |-> S.table, ret |-> end(m)]
    ELSE LET it_table == S.table[m][key]
             it_list  == Incr(S, it_table)
         IN [node  |-> Drop(S.node, {Head(S.list[m])}),
             list  |-> [S.list EXCEPT ![m] = Tail(@)],
             table |-> [S.table EXCEPT ![m] = Drop(@, {key})],
             ret   |-> it_list]

\* erase(key) that does not test it_table against table.end(): for an absent key
\* it erases the last node of the list.
erase_key_absent_erases_back(S, m, key) ==
    IF key \notin DOMAIN S.table[m]
    THEN IF S.list[m] = <<>>
         THEN [node |-> S.node, list |-> S.list, table |-> S.table, ret |-> end(m)]
         ELSE LET it_list == S.list[m][Len(S.list[m])]
              IN [node  |-> Drop(S.node, {it_list}),
                  list  |-> [S.list EXCEPT ![m] = Without(@, it_list)],
                  table |-> [S.table EXCEPT ![m] = Drop(@, {S.node[it_list].first})],
                  ret   |-> end(m)]
    ELSE LET it_table == S.table[m][key]
             it_list  == Incr(S, it_table)
         IN [node  |-> Drop(S.node, {it_table}),
             list  |-> [S.list EXCEPT ![m] = Without(@, it_table)],
             table |-> [S.table EXCEPT ![m] = Drop(@, {key})],
             ret   |-> it_list]

\* erase(const Key &).
erase_key(S, m, key) ==
    IF key \notin DOMAIN S.table[m]
    THEN [node |-> S.node, list |-> S.list, table |-> S.table, ret |-> end(m)]
    ELSE LET it_table == S.table[m][key]
             it_list  == Incr(S, it_table)
         IN [node  |-> Drop(S.node, {it_table}),
             list  |-> [S.list EXCEPT ![m] = Without(@, it_table)],
             table |-> [S.table EXCEPT ![m] = Drop(@, {key})],
             ret   |-> it_list]

\* erase(iterator) that forgets ++it_list and returns the erased iterator.
erase_it_no_increment(S, m, it_list) ==
    LET key == S.node[it_list].first
    IN IF key \notin DOMAIN S.table[m]
       THEN [node |-> S.node, list |-> S.list, table |-> S.table, ret |-> end(m)]
       ELSE LET it_table == S.table[m][key]
            IN [node  |-> Drop(S.node, {it_table}),
                list  |-> [S.list EXCEPT ![m] = Without(@, it_table)],
                table |-> [S.table EXCEPT ![m] = Drop(@, {key})],
                ret   |-> it_list]

\* erase(iterator) that returns list.end() instead of the advanced iterator.
erase_it_returns_end(S, m, it_list) ==
    LET key == S.node[it_list].first
    IN IF key \notin DOMAIN S.table[m]
       THEN [node |-> S.node, list |-> S.list, table |-> S.table, ret |-> end(m)]
       ELSE LET it_table == S.table[m][key]
            IN [node  |-> Drop(S.node, {it_table}),
                list  |-> [S.list EXCEPT ![m] = Without(@, it_table)],
                table |-> [S.table EXCEPT ![m] = Drop(@, {key})],
                ret   |-> end(m)]

\* erase(iterator) that erases the node the iterator points at, list.erase(it_list),
\* instead of the node the index names for its key.
erase_it_by_node(S, m, it_list) ==
    LET key == S.node[it_list].first
    IN IF key \notin DOMAIN S.table[m]
       THEN [node |-> S.node, list |-> S.list, table |-> S.table, ret |-> end(m)]
       ELSE [node  |-> Drop(S.node, {it_list}),
             list  |-> [c \in Maps |-> Without(S.list[c], it_list)],
             table |-> [S.table EXCEPT ![m] = Drop(@, {key})],
             ret   |-> Incr(S, it_list)]

\* erase(iterator): the index entry is looked up by the key read through the
\* iterator, the iterator is advanced, and the node the index names is erased.
erase_it(S, m, it_list) ==
    LET key == S.node[it_list].first
    IN IF key \notin DOMAIN S.table[m]
       THEN [node |-> S.node, list |-> S.list, table |-> S.table, ret |-> end(m)]
       ELSE LET it_table == S.table[m][key]
            IN [node  |-> Drop(S.node, {it_table}),
                list  |-> [S.list EXCEPT ![m] = Without(@, it_table)],
                table |-> [S.table EXCEPT ![m] = Drop(@, {key})],
                ret   |-> Incr(S, it_list)]

\* A sort function applied to two entries.
Less(cmp, a, b) ==
    CASE cmp = "key_lt" -> a.first < b.first
      [] cmp = "key_gt" -> a.first > b.first
      [] cmp = "val_lt" -> a.second < b.second
      [] cmp = "val_gt" -> a.second > b.second

\* std::list::merge of two sorted runs of nodes: a node of the second run goes
\* first only when it compares less than the head of the first run.
RECURSIVE list_merge(_, _, _, _)
list_merge(S, cmp, x, y) ==
    IF x = <<>> THEN y
    ELSE IF y = <<>> THEN x
    ELSE IF Less(cmp, S.node[Head(y)], S.node[Head(x)])
         THEN <<Head(y)>> \o list_merge(S, cmp, x, Tail(y))
         ELSE <<Head(x)>> \o list_merge(S, cmp, Tail(x), y)

\* std::list::sort: a merge sort that relinks the nodes and creates none.
RECURSIVE list_sort(_, _, _)
list_sort(S, cmp, s) ==
    IF Len(s) <= 1 THEN s
    ELSE LET h == Len(s) \div 2
         IN list_merge(S, cmp,
                       list_sort(S, cmp, SubSeq(s, 1, h)),
                       list_sort(S, cmp, SubSeq(s, h + 1, Len(s))))

\* sort() that moves the entries between the nodes (as sorting an array does)
\* instead of relinking the nodes.
sort_moves_entries(S, m, fun) ==
    LET sorted == list_sort(S, fun, S.list[m])
    IN [node  |-> [n \in DOMAIN S.node |->
                      IF n \in Range(S.list[m])
                      THEN S.node[sorted[PosIn(S.list[m], n)]]
                      ELSE S.node[n]],
        list  |-> S.list,
        table |-> S.table,
        ret   |-> 0]

\* sort() that reverses the list instead of sorting it.
sort_reverses(S, m, fun) ==
    [node  |-> S.node,
     list  |-> [S.list EXCEPT ![m] = [i \in 1..Len(@) |-> @[Len(@) + 1 - i]]],
     table |-> S.table,
     ret   |-> 0]

\* A merge step that, of two equivalent nodes, puts the one of the second run first.
RECURSIVE list_merge_unstable(_, _, _, _)
list_merge_unstable(S, cmp, x, y) ==
    IF x = <<>> THEN y
    ELSE IF y = <<>> THEN x
    ELSE IF ~Less(cmp, S.node[Head(x)], S.node[Head(y)])
         THEN <<Head(y)>> \o list_merge_unstable(S, cmp, x, Tail(y))
         ELSE <<Head(x)>> \o list_merge_unstable(S, cmp, Tail(x), y)

RECURSIVE list_sort_unstable(_, _, _)
list_sort_unstable(S, cmp, s) ==
    IF Len(s) <= 1 THEN s
    ELSE LET h == Len(s) \div 2
         IN list_merge_unstable(S, cmp,
                                list_sort_unstable(S, cmp, SubSeq(s, 1, h)),
                                list_sort_unstable(S, cmp, SubSeq(s, h + 1, Len(s))))

\* sort() by a sort that orders the list but is not stable.
sort_unstable(S, m, fun) ==
    [node  |-> S.node,
     list  |-> [S.list EXCEPT ![m] = list_sort_unstable(S, fun, @)],
     table |-> S.table,
     ret   |-> 0]

\* sort() that sorts the reversed list: equivalent entries come out in the reverse
\* of the order they were in.
sort_reversed_input(S, m, fun) ==
    [node  |-> S.node,
     list  |-> [S.list EXCEPT ![m] =
                   list_sort(S, fun, [i \in 1..Len(@) |-> @[Len(@) + 1 - i]])],
     table |-> S.table,
     ret   |-> 0]

\* sort() that calls list.sort() without the function: the entries come out in the
\* order of std::pair's operator<, ascending by key.
sort_default_order(S, m, fun) ==
    [node  |-> S.node,
     list  |-> [S.list EXCEPT ![m] = list_sort(S, "key_lt", @)],
     table |-> S.table,
     ret   |-> 0]

\* sort(fun).
sort(S, m, fun) ==
    [node  |-> S.node,
     list  |-> [S.list EXCEPT ![m] = list_sort(S, fun, @)],
     table |-> S.table,
     ret   |-> 0]

\* The loop of merge(): set() on this container for every entry of other.list, in
\* order; ids are the nodes the allocator hands out, in the order it is asked.
RECURSIVE merge_loop(_, _, _, _, _)
merge_loop(S, m, o, i, ids) ==
    IF i > Len(S.list[o]) THEN S
    ELSE LET entry == S.node[S.list[o][i]]
             ins   == entry.first \notin DOMAIN S.table[m]
         IN merge_loop(set(S, m, entry.first, entry.second, IF ins THEN Head(ids) ELSE 0),
                       m, o, i + 1, IF ins THEN Tail(ids) ELSE ids)

\* merge() that keeps the value of a key this container already has (what
\* std::map::insert does) instead of overwriting it.
RECURSIVE merge_loop_keeps(_, _, _, _, _)
merge_loop_keeps(S, m, o, i, ids) ==
    IF i > Len(S.list[o]) THEN S
    ELSE LET entry == S.node[S.list[o][i]]
             ins   == entry.first \notin DOMAIN S.table[m]
         IN merge_loop_keeps(IF ins THEN set(S, m, entry.first, entry.second, Head(ids)) ELSE S,
                             m, o, i + 1, IF ins THEN Tail(ids) ELSE ids)

merge_keeps_existing(S, m, o, ids) == clear(merge_loop_keeps(S, m, o, 1, ids), o)

\* merge() that forgets other.clear().
merge_keeps_other(S, m, o, ids) ==
    LET R == merge_loop(S, m, o, 1, ids)
    IN [node |-> R.node, list |-> R.list, table |-> R.table, ret |-> 0]

\* merge() that returns at once when other is this container.
merge_guards_self(S, m, o, ids) ==
    IF m = o THEN [node |-> S.node, list |-> S.list, table |-> S.table, ret |-> 0]
    ELSE clear(merge_loop(S, m, o, 1, ids), o)

\* merge(ordered_map_t &&other).
merge(S, m, o, ids) == clear(merge_loop(S, m, o, 1, ids), o)

\* The copy loop that stores in the table the iterator of the source's node (what
\* a member-wise copy of the table would hold) instead of the new node's.
RECURSIVE copy_loop_aliases(_, _, _, _, _)
copy_loop_aliases(S, m, o, i, ids) ==
    IF i > Len(S.list[o]) THEN S
    ELSE LET entry == S.node[S.list[o][i]]
             n     == Head(ids)
         IN copy_loop_aliases([node  |-> Put(S.node, n, entry),
                               list  |-> [S.list EXCEPT ![m] = Append(@, n)],
                               table |-> [S.table EXCEPT ![m] =
                                             IF entry.first \in DOMAIN @ THEN @
                                             ELSE Put(@, entry.first, S.list[o][i])],
                               ret   |-> 0],
                              m, o, i + 1, Tail(ids))

\* The loop of the copy constructor and of copy assignment: each entry of
\* other.list is inserted at the end of this list and its iterator is stored in
\* the table under the entry's key (std::map::insert keeps an existing entry).
RECURSIVE copy_loop(_, _, _, _, _)
copy_loop(S, m, o, i, ids) ==
    IF i > Len(S.list[o]) THEN S
    ELSE LET entry == S.node[S.list[o][i]]
             n     == Head(ids)
         IN copy_loop([node  |-> Put(S.node, n, entry),
                       list  |-> [S.list EXCEPT ![m] = Append(@, n)],
                       table |-> [S.table EXCEPT ![m] =
                                     IF entry.first \in DOMAIN @ THEN @
                                     ELSE Put(@, entry.first, n)],
                       ret   |-> 0],
                      m, o, i + 1, Tail(ids))

\* operator=(const ordered_map_t &) that forgets this->clear().
copy_assign_keeps_entries(S, m, o, ids) ==
    IF m # o THEN copy_loop([node |-> S.node, list |-> S.list, table |-> S.table, ret |-> 0],
                            m, o, 1, ids)
    ELSE [node |-> S.node, list |-> S.list, table |-> S.table, ret |-> 0]

\* operator=(const ordered_map_t &).
copy_assign(S, m, o, ids) ==
    IF m # o THEN copy_loop(clear(S, m), m, o, 1, ids)
    ELSE [node |-> S.node, list |-> S.list, table |-> S.table, ret |-> 0]

\* The members of `other` are moved into this container: the nodes and the index
\* entries change owner and `other` is left empty.
move_members(S, m, o) ==
    [node  |-> S.node,
     list  |-> [S.list EXCEPT ![m] = S.list[o], ![o] = <<>>],
     table |-> [S.table EXCEPT ![m] = S.table[o], ![o] = EmptyFn],
     ret   |-> 0]

\* operator=(ordered_map_t &&) that forgets this->clear().
move_assign_keeps_entries(S, m, o) ==
    IF m # o THEN move_members(S, m, o)
    ELSE [node |-> S.node, list |-> S.list, table |-> S.table, ret |-> 0]

\* operator=(ordered_map_t &&).
move_assign(S, m, o) ==
    IF m # o THEN move_members(clear(S, m), m, o)
    ELSE [node |-> S.node, list |-> S.list, table |-> S.table, ret |-> 0]

\* The member initialisers list() and table() of a constructor.
construct(S, m) ==
    [node  |-> S.node,
     list  |-> [S.list EXCEPT ![m] = <<>>],
     table |-> [S.table EXCEPT ![m] = EmptyFn],
     ret   |-> 0]

\* ordered_map_t(const ordered_map_t &).
copy_construct(S, m, o, ids) == copy_loop(construct(S, m), m, o, 1, ids)

\* ordered_map_t(ordered_map_t &&).
move_construct(S, m, o) == move_members(construct(S, m), m, o)

----------------------------------------------------------------------------
\* What held when a call was made: the size of the container it was called on, for
\* an erase the zero-based position of the entry it removes (-1 when it removes
\* none), and the size of the container given as `other` (0 when there is none).
Was(m, pos, o) ==
    [size  |-> Len(list[m]),
     pos   |-> pos,
     other |-> IF o \in Maps THEN Len(list[o]) ELSE 0]

\* The record of the call just made: the operation, the container it was called
\* on, its arguments, what it returned, and what held when it was made.
Call(op, m, a, ret, was) == [op |-> op, m |-> m, a |-> a, ret |-> ret, was |-> was]

\* The calls so far (key, value, returned iterator) are remembered while they are
\* all set() calls on container 1 with keys not used before.
Log(op, m, a, ret) ==
    IF hist.pure /\ op = "set" /\ m = 1
       /\ \A i \in DOMAIN hist.calls : hist.calls[i].key # a[1]
    THEN [pure |-> TRUE,
          calls |-> Append(hist.calls, [key |-> a[1], value |-> a[2], ret |-> ret])]
    ELSE [pure |-> FALSE, calls |-> <<>>]

\* The containers take the state R an operation computed.
Commit(R, op, m, a, was) ==
    /\ node' = R.node
    /\ list' = R.list
    /\ table' = R.table
    /\ last' = Call(op, m, a, R.ret, was)
    /\ hist' = Log(op, m, a, R.ret)
    /\ UNCHANGED heap

\* The position of the entry erase(key) removes, -1 when the key is absent.
ErasedPos(m, key) ==
    IF key \in DOMAIN table[m] THEN PosIn(list[m], table[m][key]) - 1 ELSE 0 - 1

\* The nodes the allocator may hand to an insert of key into m: any free node
\* (none is needed when the key is present).
AllocFor(m, key) == IF key \in DOMAIN table[m] THEN {0} ELSE FreeNodes(State)

Init ==
    /\ heap = NodeIds
    /\ alive = [m \in Maps |-> m = 1]
    /\ node = EmptyFn
    /\ list = [m \in Maps |-> <<>>]
    /\ table = [m \in Maps |-> EmptyFn]
    /\ last = Call("init", 1, <<>>, 0, [size |-> 0, pos |-> 0 - 1, other |-> 0])
    /\ hist = [pure |-> TRUE, calls |-> <<>>]

DefaultConstruct(m) ==
    /\ ~alive[m]
    /\ alive' = [alive EXCEPT ![m] = TRUE]
    /\ Commit(construct(State, m), "construct", m, <<>>, Was(m, 0 - 1, 0))

CopyConstruct(m, o) ==
    /\ ~alive[m] /\ alive[o]
    /\ alive' = [alive EXCEPT ![m] = TRUE]
    /\ \E ids \in Injections(Len(list[o]), FreeNodes(State)) :
          Commit(copy_construct(State, m, o, ids), "copy_construct", m, <<o>>, Was(m, 0 - 1, o))

MoveConstruct(m, o) ==
    /\ ~alive[m] /\ alive[o]
    /\ alive' = [alive EXCEPT ![m] = TRUE]
    /\ Commit(move_construct(State, m, o), "move_construct", m, <<o>>, Was(m, 0 - 1, o))

\* ~ordered_map_t(): the members are destroyed, and with them every node.
Destroy(m) ==
    /\ alive[m]
    /\ alive' = [alive EXCEPT ![m] = FALSE]
    /\ Commit(clear(State, m), "destroy", m, <<>>, Was(m, 0 - 1, 0))

Clear(m) ==
    /\ alive[m]
    /\ UNCHANGED alive
    /\ Commit(clear(State, m), "clear", m, <<>>, Was(m, 0 - 1, 0))

Set(m, key, value) ==
    /\ alive[m]
    /\ UNCHANGED alive
    /\ \E n \in AllocFor(m, key) :
          Commit(set(State, m, key, value, n), "set", m, <<key, value>>, Was(m, 0 - 1, 0))

Emplace(m, key, args) ==
    /\ alive[m]
    /\ UNCHANGED alive
    /\ \E n \in AllocFor(m, key) :
          Commit(emplace(State, m, key, args, n), "emplace", m, <<key, args>>, Was(m, 0 - 1, 0))

EraseKey(m, key) ==
    /\ alive[m]
    /\ UNCHANGED alive
    /\ Commit(erase_key(State, m, key), "erase_key", m, <<key>>, Was(m, ErasedPos(m, key), 0))

\* The iterator handed to erase(iterator) points at a live entry (of this or of
\* another container); erase reads the key through it.
EraseIt(m, it_list) ==
    /\ alive[m]
    /\ it_list \in DOMAIN node
    /\ UNCHANGED alive
    /\ Commit(erase_it(State, m, it_list), "erase_it", m, <<it_list>>,
              Was(m, ErasedPos(m, node[it_list].first), 0))

Sort(m, fun) ==
    /\ alive[m]
    /\ UNCHANGED alive
    /\ Commit(sort(State, m, fun), "sort", m, <<fun>>, Was(m, 0 - 1, 0))

\* The keys of other's entries that this container lacks: one node each.
MergeNeeds(m, o) == {node[n].first : n \in Range(list[o])} \ DOMAIN table[m]

Merge(m, o) ==
    /\ alive[m] /\ alive[o]
    /\ UNCHANGED alive
    /\ \E ids \in Injections(Cardinality(MergeNeeds(m, o)), FreeNodes(State)) :
          Commit(merge(State, m, o, ids), "merge", m, <<o>>, Was(m, 0 - 1, o))

CopyAssign(m, o) ==
    /\ alive[m] /\ alive[o]
    /\ UNCHANGED alive
    /\ \E ids \in IF m = o THEN {<<>>}
                  ELSE Injections(Len(list[o]), FreeNodes(clear(State, m))) :
          Commit(copy_assign(State, m, o, ids), "copy_assign", m, <<o>>, Was(m, 0 - 1, o))

MoveAssign(m, o) ==
    /\ alive[m] /\ alive[o]
    /\ UNCHANGED alive
    /\ Commit(move_assign(State, m, o), "move_assign", m, <<o>>, Was(m, 0 - 1, o))

Front(m) ==
    /\ alive[m]
    /\ UNCHANGED alive
    /\ Commit([node |-> node, list |-> list, table |-> table, ret |-> front(State, m)],
              "front", m, <<>>, Was(m, 0 - 1, 0))

Back(m) ==
    /\ alive[m]
    /\ UNCHANGED alive
    /\ \E it \in back(State, m) :
          Commit([node |-> node, list |-> list, table |-> table, ret |-> it],
                 "back", m, <<>>, Was(m, 0 - 1, 0))

Next ==
    \/ \E m \in Maps : DefaultConstruct(m)
    \/ \E m \in Maps : \E o \in Maps \ {m} : CopyConstruct(m, o)
    \/ \E m \in Maps : \E o \in Maps \ {m} : MoveConstruct(m, o)
    \/ \E m \in Maps : Destroy(m)
    \/ \E m \in Maps : Clear(m)
    \/ \E m \in Maps, key \in Keys, value \in Values : Set(m, key, value)
    \/ \E m \in Maps, key \in Keys, args \in {<<>>} \cup {<<v>> : v \in Values} :
          Emplace(m, key, args)
    \/ \E m \in Maps, key \in Keys : EraseKey(m, key)
    \/ \E m \in Maps, it_list \in heap : EraseIt(m, it_list)
    \/ \E m \in Maps, fun \in Comparators : Sort(m, fun)
    \/ \E m \in Maps, o \in Maps : Merge(m, o)
    \/ \E m \in Maps, o \in Maps : CopyAssign(m, o)
    \/ \E m \in Maps, o \in Maps : MoveAssign(m, o)

Spec == Init /\ [][Next]_vars

----------------------------------------------------------------------------
TypeOK ==
    /\ alive \in [Maps -> BOOLEAN]
    /\ DOMAIN node \subseteq heap
    /\ \A n \in DOMAIN node : node[n].first \in Keys /\ node[n].second \in Values
    /\ \A m \in Maps : Range(list[m]) \subseteq DOMAIN node
    /\ \A m \in Maps : DOMAIN table[m] \subseteq Keys
    /\ \A m \in Maps : \A k \in DOMAIN table[m] : table[m][k] \in heap

----------------------------------------------------------------------------
\* The merge of two containers with any contents: the initial states are all the
\* pairs of containers with pairwise different keys in each, and the heap has room
\* for every node a merge can ask for.

Entries == [first : Keys, second : Values]

Contents ==
    {s \in UNION {[1..n -> Entries] : n \in 0..MaxKey} :
        \A i, j \in DOMAIN s : s[i].first = s[j].first => i = j}

\* The index of a container that holds the entries c in the nodes base+1, base+2, ...
IndexOf(c, base) ==
    [k \in {c[i].first : i \in DOMAIN c} |-> base + (CHOOSE i \in DOMAIN c : c[i].first = k)]

MergeInit ==
    \E c1 \in Contents, c2 \in Contents :
        /\ heap = 1..(2 * MaxKey)
        /\ alive = [m \in Maps |-> TRUE]
        /\ node = [n \in 1..(Len(c1) + Len(c2)) |->
                      IF n <= Len(c1) THEN c1[n] ELSE c2[n - Len(c1)]]
        /\ list = [m \in Maps |-> IF m = 1 THEN [i \in 1..Len(c1) |-> i]
                                  ELSE [i \in 1..Len(c2) |-> Len(c1) + i]]
        /\ table = [m \in Maps |-> IF m = 1 THEN IndexOf(c1, 0) ELSE IndexOf(c2, Len(c1))]
        /\ last = Call("init", 1, <<>>, 0, [size |-> 0, pos |-> 0 - 1, other |-> 0])
        /\ hist = [pure |-> FALSE, calls |-> <<>>]

MergeNext == \E m \in Maps, o \in Maps : Merge(m, o)

MergeSpec == MergeInit /\ [][MergeNext]_vars

----------------------------------------------------------------------------
\* The copy of a container with any contents: container 1 holds any entries and
\* container 2 either holds any entries too or is not constructed yet.

CopyInit ==
    \E c1 \in Contents, c2 \in Contents, a \in BOOLEAN :
        /\ a \/ c2 = <<>>
        /\ heap = 1..(2 * MaxKey)
        /\ alive = [m \in Maps |-> m = 1 \/ a]
        /\ node = [n \in 1..(Len(c1) + Len(c2)) |->
                      IF n <= Len(c1) THEN c1[n] ELSE c2[n - Len(c1)]]
        /\ list = [m \in Maps |-> IF m = 1 THEN [i \in 1..Len(c1) |-> i]
                                  ELSE [i \in 1..Len(c2) |-> Len(c1) + i]]
        /\ table = [m \in Maps |-> IF m = 1 THEN IndexOf(c1, 0) ELSE IndexOf(c2, Len(c1))]
        /\ last = Call("init", 1, <<>>, 0, [size |-> 0, pos |-> 0 - 1, other |-> 0])
        /\ hist = [pure |-> FALSE, calls |-> <<>>]

CopyNext ==
    \/ \E m \in Maps : \E o \in Maps \ {m} : CopyConstruct(m, o)
    \/ \E m \in Maps, o \in Maps : CopyAssign(m, o)

CopySpec == CopyInit /\ [][CopyNext]_vars

----------------------------------------------------------------------------
\* The ends of a container with any contents, in any order a sort leaves them in:
\* container 1 holds any entries and container 2 is not constructed.

EndsInit ==
    \E c1 \in Contents :
        /\ heap = 1..MaxKey
        /\ alive = [m \in Maps |-> m = 1]
        /\ node = [n \in 1..Len(c1) |-> c1[n]]
        /\ list = [m \in Maps |-> IF m = 1 THEN [i \in 1..Len(c1) |-> i] ELSE <<>>]
        /\ table = [m \in Maps |-> IF m = 1 THEN IndexOf(c1, 0) ELSE EmptyFn]
        /\ last = Call("init", 1, <<>>, 0, [size |-> 0, pos |-> 0 - 1, other |-> 0])
        /\ hist = [pure |-> FALSE, calls |-> <<>>]

EndsNext ==
    \/ \E m \in Maps : Front(m)
    \/ \E m \in Maps : Back(m)
    \/ \E m \in Maps, fun \in Comparators : Sort(m, fun)

EndsSpec == EndsInit /\ [][EndsNext]_vars

----------------------------------------------------------------------------
\* The example program: main() makes its calls on one table, one after the other.
\* The keys "a", "b", "c", "d" are 1, 2, 3, 4; the allocator hands out any free
\* node of a heap of ScenarioNodes nodes.

ScenarioNodes == 5

ScenarioInit ==
    /\ heap = 1..ScenarioNodes
    /\ alive = [m \in Maps |-> m = 1]
    /\ node = EmptyFn
    /\ list = [m \in Maps |-> <<>>]
    /\ table = [m \in Maps |-> EmptyFn]
    /\ last = Call("init", 1, <<>>, 0, [size |-> 0, pos |-> 0 - 1, other |-> 0])
    /\ hist = [pure |-> TRUE, calls |-> <<>>]

\* The call made last was op(a): where main() stands.
After(op, a) == last.op = op /\ last.a = a

ScenarioNext ==
    \/ After("init", <<>>) /\ Set(1, 1, 1)
    \/ After("set", <<1, 1>>) /\ Set(1, 2, 2)
    \/ After("set", <<2, 2>>) /\ Set(1, 3, 3)
    \/ After("set", <<3, 3>>) /\ Set(1, 3, 4)
    \/ After("set", <<3, 4>>) /\ Set(1, 4, 5)
    \/ After("set", <<4, 5>>) /\ EraseKey(1, 3)
    \/ /\ After("erase_key", <<3>>)
       /\ find(State, 1, 4) # end(1)
       /\ EraseIt(1, find(State, 1, 4))
    \/ (After("erase_key", <<3>>) \/ last.op = "erase_it") /\ Sort(1, "key_gt")
    \/ After("sort", <<"key_gt">>) /\ Sort(1, "key_lt")

ScenarioSpec == ScenarioInit /\ [][ScenarioNext]_vars

----------------------------------------------------------------------------

\* The queries of a container, made between the calls that change it.  A query
\* writes to no member: the containers are as they were and the call returns ret.

Observe(m, op, a, ret) ==
    /\ alive[m]
    /\ UNCHANGED alive
    /\ Commit([node |-> node, list |-> list, table |-> table, ret |-> ret],
              op, m, a, Was(m, 0 - 1, 0))

QueryNext ==
    \/ \E m \in Maps, key \in Keys : Observe(m, "find", <<key>>, find(State, m, key))
    \/ \E m \in Maps, position \in 0..(MaxKey + 1) :
          Observe(m, "at", <<position>>, at(State, m, position))
    \/ \E m \in Maps, key \in Keys : Observe(m, "has", <<key>>, has(State, m, key))
    \/ \E m \in Maps, key \in Keys : Observe(m, "count", <<key>>, count(State, m, key))
    \/ \E m \in Maps : Observe(m, "size", <<>>, size(State, m))
    \/ \E m \in Maps : Observe(m, "empty", <<>>, empty(State, m))
    \/ \E m \in Maps : \E it \in Range(list[m]) \cup {end(m)} :
          Observe(m, "index_of", <<it>>, index_of(State, m, it))
    \/ \E m \in Maps : Front(m)
    \/ \E m \in Maps : Back(m)
    \/ \E m \in Maps : Observe(m, "keys", <<>>, keys(State, m))
    \/ \E m \in Maps : Observe(m, "values", <<>>, values(State, m))
    \/ \E m \in Maps : Observe(m, "to_vector", <<>>, to_vector(State, m))
    \/ \E m \in Maps : Observe(m, "begin", <<>>, begin(State, m))
    \/ \E m \in Maps : Observe(m, "end", <<>>, end(m))
    \/ \E m \in Maps, key \in Keys, value \in Values : Set(m, key, value)
    \/ \E m \in Maps, key \in Keys, args \in {<<>>} \cup {<<v>> : v \in Values} :
          Emplace(m, key, args)
    \/ \E m \in Maps, key \in Keys : EraseKey(m, key)
    \/ \E m \in Maps, it_list \in heap : EraseIt(m, it_list)
    \/ \E m \in Maps, fun \in Comparators : Sort(m, fun)
    \/ \E m \in Maps : Clear(m)

QuerySpec == Init /\ [][QueryNext]_vars

----------------------------------------------------------------------------

\* A key is erased from a container with any contents and is set again.  The
\* container starts with its entries in the nodes 1, 2, ... in list order, so the
\* handle each entry had before the erase is known; the node an erase frees goes
\* back to the allocator, which may hand out any free node to the insert.

ReuseNext ==
    \/ After("init", <<>>) /\ \E key \in Keys : EraseKey(1, key)
    \/ last.op = "erase_key" /\ \E value \in Values : Set(1, last.a[1], value)
    \/ last.op = "set" /\ Observe(1, "find", last.a, find(State, 1, last.a[1]))

ReuseSpec == EndsInit /\ [][ReuseNext]_vars

----------------------------------------------------------------------------

\* Writes through a handle.  A handle is a list_t::iterator and an entry is a
\* std::pair<Key, Value>, both of whose members are assignable through it:
\* it->second = value and it->first = key.

write_second(S, it, value) ==
    [node  |-> [S.node EXCEPT ![it].second = value],
     list  |-> S.list,
     table |-> S.table,
     ret   |-> 0]

write_first(S, it, key) ==
    [node  |-> [S.node EXCEPT ![it].first = key],
     list  |-> S.list,
     table |-> S.table,
     ret   |-> 0]

\* The handle written through is one the container gave out (set, find, at,
\* front, back or begin) for an entry that is still in it.
WriteSecond(m, it, value) ==
    /\ alive[m]
    /\ it \in Range(list[m])
    /\ UNCHANGED alive
    /\ Commit(write_second(State, it, value), "write_second", m, <<it, value>>,
              Was(m, 0 - 1, 0))

WriteFirst(m, it, key) ==
    /\ alive[m]
    /\ it \in Range(list[m])
    /\ UNCHANGED alive
    /\ Commit(write_first(State, it, key), "write_first", m, <<it, key>>,
              Was(m, 0 - 1, 0))

HandleNext ==
    \/ \E m \in Maps, key \in Keys, value \in Values : Set(m, key, value)
    \/ \E m \in Maps, key \in Keys : Observe(m, "find", <<key>>, find(State, m, key))
    \/ \E m \in Maps, it \in heap, value \in Values : WriteSecond(m, it, value)
    \/ \E m \in Maps, it \in heap, key \in Keys : WriteFirst(m, it, key)

HandleSpec == Init /\ [][HandleNext]_vars

----------------------------------------------------------------------------

\* The state after the step, for the properties of single operations.
Post == [node |-> node', list |-> list', table |-> table']

\* I1 for container m in state S: the index and the sequence hold the same keys
\* and every index entry points at the node of the sequence that carries its key.
I1(S, m) ==
    /\ Range(S.list[m]) \subseteq DOMAIN S.node
    /\ DOMAIN S.table[m] = {S.node[n].first : n \in Range(S.list[m])}
    /\ \A k \in DOMAIN S.table[m] :
          /\ S.table[m][k] \in Range(S.list[m])
          /\ S.node[S.table[m][k]].first = k

\* C1: after every public operation, in any order from the empty container, the
\* keys of the index are the keys of the entries of the sequence, and the handle
\* the index stores for a key points at the sequence node carrying that key.
C1_Bijection == \A m \in Maps : I1(State, m)

\* An erase by handle has just left two entries in both structures.
C1_Witness ==
    /\ last.op = "erase_it"
    /\ Len(list[last.m]) = 2
    /\ Cardinality(DOMAIN table[last.m]) = 2

\* C2: in every reachable state no two entries of a sequence carry the same key.
C2_UniqueKeys ==
    \A m \in Maps : \A i, j \in DOMAIN list[m] :
        node[list[m][i]].first = node[list[m][j]].first => i = j

\* A set() has just taken the update path on a container of two entries.
C2_Witness ==
    /\ last.op = "set"
    /\ last.was.size = 2
    /\ Len(list[last.m]) = 2

\* C3: after set() calls with pairwise distinct keys on the empty container,
\* traversal yields the entries in the order of the calls, and at(i) is the entry
\* the i-th call (zero-based) inserted.
C3_InsertionOrder ==
    hist.pure =>
        /\ Len(list[1]) = Len(hist.calls)
        /\ keys(State, 1) = [i \in DOMAIN hist.calls |-> hist.calls[i].key]
        /\ values(State, 1) = [i \in DOMAIN hist.calls |-> hist.calls[i].value]
        /\ \A i \in DOMAIN hist.calls :
              /\ at(State, 1, i - 1) = hist.calls[i].ret
              /\ node[at(State, 1, i - 1)] =
                    [first |-> hist.calls[i].key, second |-> hist.calls[i].value]

\* Three set() calls with three different keys have been made, and nothing else.
C3_Witness == hist.pure /\ Len(hist.calls) = 3

\* C4: a set(k, v2) of a key that an earlier set put in the container, and that
\* has not been erased since, leaves the size unchanged, makes find(k) an entry
\* whose value is v2, and leaves that entry at the position it had.
C4_Step ==
    \A m \in Maps, key \in Keys, value \in Values :
        (/\ last'.op = "set" /\ last'.m = m /\ last'.a = <<key, value>>
         /\ key \in DOMAIN table[m])
        => /\ size(Post, m) = size(State, m)
           /\ find(Post, m, key) # end(m)
           /\ Post.node[find(Post, m, key)] = [first |-> key, second |-> value]
           /\ index_of(Post, m, find(Post, m, key)) = index_of(State, m, find(State, m, key))
           /\ keys(Post, m) = keys(State, m)

C4_Upsert == [][C4_Step]_vars

\* A set() has just updated the middle one of three entries.
C4_Witness ==
    /\ last.op = "set"
    /\ last.was.size = 3
    /\ Len(list[last.m]) = 3
    /\ index_of(State, last.m, last.ret) = 1

\* The call of the step erases the entry that node n of container m holds.
Erases(m, n) ==
    /\ last'.m = m
    /\ \/ last'.op = "erase_key" /\ last'.a[1] = node[n].first
       \/ last'.op = "erase_it" /\ node[last'.a[1]].first = node[n].first

\* The value node n of container m holds after the step: the one a set or emplace
\* of its key stores, else the one it held.
ValueAfter(m, n) ==
    IF last'.m = m /\ last'.op = "set" /\ last'.a[1] = node[n].first THEN last'.a[2]
    ELSE IF last'.m = m /\ last'.op = "emplace" /\ last'.a[1] = node[n].first
         THEN Value(last'.a[2])
         ELSE node[n].second

\* C5: a handle keeps resolving to the same entry (its key, and the value last
\* set for the key) across insertions and erasures of other keys, by key or by
\* handle, and across sorts, until its own entry is erased; an erase invalidates
\* the handle of the erased entry only.
C5_Step ==
    last'.op \in {"set", "emplace", "erase_key", "erase_it", "sort"} =>
        \A m \in Maps : \A n \in Range(list[m]) :
            IF Erases(m, n)
            THEN DOMAIN node' = (DOMAIN node) \ {n}
            ELSE /\ n \in Range(list'[m])
                 /\ n \in DOMAIN node'
                 /\ node'[n] = [first |-> node[n].first, second |-> ValueAfter(m, n)]
                 /\ find(Post, m, node[n].first) = n

C5_HandleStability == [][C5_Step]_vars

\* The middle one of three entries has just been erased through its handle; the
\* handles of the two others are the ones that must have survived.
C5_Witness ==
    /\ last.op = "erase_it"
    /\ last.was.size = 3
    /\ last.was.pos = 1
    /\ Len(list[last.m]) = 2

\* C6: sort changes only the traversal order: no node is created, destroyed or
\* rewritten, the index is untouched, find(k) returns the same entry with the
\* same value for every key, the sequence holds the same nodes, and I1 holds.
C6_Step ==
    \A m \in Maps :
        (last'.op = "sort" /\ last'.m = m)
        => /\ node' = node
           /\ table' = table
           /\ Len(list'[m]) = Len(list[m])
           /\ Range(list'[m]) = Range(list[m])
           /\ \A o \in Maps \ {m} : list'[o] = list[o]
           /\ \A k \in DOMAIN table[m] :
                 /\ find(Post, m, k) = find(State, m, k)
                 /\ Post.node[find(Post, m, k)].second = node[find(State, m, k)].second
           /\ I1(Post, m)

C6_SortFrame == [][C6_Step]_vars

\* Three entries have just been sorted by key, descending.
C6_Witness ==
    /\ last.op = "sort"
    /\ last.a = <<"key_gt">>
    /\ keys(State, last.m) = <<3, 2, 1>>

\* C7: erase(k) of a present key removes exactly that entry: the size drops by one,
\* neither find(k) nor at() reaches the entry, every other entry keeps its value
\* and the remaining entries keep their relative order.
C7_Step ==
    \A m \in Maps, key \in Keys :
        (/\ last'.op = "erase_key" /\ last'.m = m /\ last'.a = <<key>>
         /\ key \in DOMAIN table[m])
        => LET victim == table[m][key]
               others == Range(list[m]) \ {victim}
           IN /\ size(Post, m) = size(State, m) - 1
              /\ find(Post, m, key) = end(m)
              /\ \A i \in 0..size(State, m) : at(Post, m, i) # victim
              /\ \A i \in DOMAIN list'[m] : Post.node[list'[m][i]].first # key
              /\ Range(list'[m]) = others
              /\ \A n \in others : n \in DOMAIN node' /\ node'[n] = node[n]
              /\ \A x, y \in others :
                    (PosIn(list'[m], x) < PosIn(list'[m], y))
                        <=> (PosIn(list[m], x) < PosIn(list[m], y))

C7_EraseKey == [][C7_Step]_vars

\* erase(key) has just removed the middle one of three entries.
C7_Witness ==
    /\ last.op = "erase_key"
    /\ last.was.size = 3
    /\ last.was.pos = 1
    /\ Len(list[last.m]) = 2

\* The key the erase of the step looks up: its argument, or the key read through
\* the handle it is given.
ErasedKey == IF last'.op = "erase_key" THEN last'.a[1] ELSE node[last'.a[1]].first

\* C8: an erase, by key or by handle, of the entry at position i returns a handle
\* to the entry that was at position i+1 (and is at position i afterwards), and
\* the end sentinel when the erased entry was the last one.
C8_Step ==
    \A m \in Maps :
        (/\ last'.op \in {"erase_key", "erase_it"} /\ last'.m = m
         /\ (last'.op = "erase_it" => last'.a[1] \in Range(list[m]))
         /\ \E j \in DOMAIN list[m] : node[list[m][j]].first = ErasedKey)
        => LET i == (CHOOSE j \in DOMAIN list[m] : node[list[m][j]].first = ErasedKey) - 1
           IN /\ last'.ret = IF i + 1 < size(State, m) THEN at(State, m, i + 1) ELSE end(m)
              /\ last'.ret = at(Post, m, i)

C8_EraseReturn == [][C8_Step]_vars

\* An erase by handle of the first of three entries has just returned a handle to
\* an entry, which is now the first.
C8_Witness ==
    /\ last.op = "erase_it"
    /\ last.was.size = 3
    /\ last.was.pos = 0
    /\ last.ret = at(State, last.m, 0)
    /\ last.ret # end(last.m)

\* C9: after erase(k), a set of a different, absent key puts the new entry at the
\* tail (position size-1), not where k was; the entries that were before and
\* after k stay as they are, in their order.
C9_Step ==
    \A m \in Maps, key \in Keys, value \in Values :
        (/\ last.op = "erase_key" /\ last.m = m /\ last.was.pos >= 0
         /\ last'.op = "set" /\ last'.m = m /\ last'.a = <<key, value>>
         /\ key # last.a[1] /\ key \notin DOMAIN table[m])
        => /\ list'[m] = Append(list[m], last'.ret)
           /\ index_of(Post, m, last'.ret) = size(Post, m) - 1
           /\ Post.node[last'.ret] = [first |-> key, second |-> value]
           /\ (last.was.pos < size(State, m) => index_of(Post, m, last'.ret) # last.was.pos)
           /\ \A n \in Range(list[m]) : node'[n] = node[n]

C10_Step ==
    \A m \in Maps : \A o \in Maps \ {m} :
        (last'.op = "merge" /\ last'.m = m /\ last'.a = <<o>>)
        => LET mine  == list[m]
               fresh == SelectSeq(list[o], LAMBDA n : node[n].first \notin DOMAIN table[m])
               theirs(k) == node[CHOOSE n \in Range(list[o]) : node[n].first = k].second
           IN /\ Len(list'[m]) = Len(mine) + Len(fresh)
              /\ SubSeq(list'[m], 1, Len(mine)) = mine
              /\ \A i \in DOMAIN mine :
                    Post.node[mine[i]] =
                        [first  |-> node[mine[i]].first,
                         second |-> IF \E n \in Range(list[o]) : node[n].first = node[mine[i]].first
                                    THEN theirs(node[mine[i]].first)
                                    ELSE node[mine[i]].second]
              /\ \A j \in DOMAIN fresh :
                    Post.node[list'[m][Len(mine) + j]] = node[fresh[j]]
              /\ I1(Post, m)

C10_Merge == [][C10_Step]_vars

\* A merge of a container of two entries into another container of two entries
\* has just left three: one entry was rewritten in place, one left alone, and
\* one appended.
C10_Witness ==
    /\ last.op = "merge"
    /\ last.a # <<last.m>>
    /\ last.was.size = 2
    /\ last.was.other = 2
    /\ Len(list[last.m]) = 3

\* C11: after self.merge(other), other a different container, other is empty:
\* its size is 0, begin() is end(), find of every key is end(), its sequence and
\* its index are empty and its nodes are destroyed.
C11_Step ==
    \A m \in Maps : \A o \in Maps \ {m} :
        (last'.op = "merge" /\ last'.m = m /\ last'.a = <<o>>)
        => /\ size(Post, o) = 0
           /\ at(Post, o, 0) = end(o)
           /\ \A k \in Keys : find(Post, o, k) = end(o)
           /\ list'[o] = <<>>
           /\ table'[o] = EmptyFn
           /\ \A n \in Range(list[o]) : n \notin DOMAIN node'
           /\ I1(Post, o)

C11_MergeEmptiesOther == [][C11_Step]_vars

\* A merge has just consumed another container that held three entries.
C11_Witness ==
    /\ last.op = "merge"
    /\ last.a # <<last.m>>
    /\ last.was.other = 3
    /\ \A o \in Maps \ {last.m} : list[o] = <<>> /\ table[o] = EmptyFn

\* C12: copy construction and copy assignment from a different container give a
\* container with the same (key, value) pairs in the same order as the source,
\* whose index points at nodes of its own sequence and never at a node of the
\* source; a copy assignment discards the previous entries of the destination.
C12_Step ==
    \A m \in Maps : \A o \in Maps \ {m} :
        (last'.op \in {"copy_construct", "copy_assign"} /\ last'.m = m /\ last'.a = <<o>>)
        => /\ to_vector(Post, m) = to_vector(State, o)
           /\ to_vector(Post, o) = to_vector(State, o)
           /\ list'[o] = list[o] /\ table'[o] = table[o]
           /\ I1(Post, m)
           /\ \A k \in DOMAIN table'[m] :
                 /\ table'[m][k] \in Range(list'[m])
                 /\ table'[m][k] \notin Range(list'[o])
           /\ Range(list'[m]) \cap Range(list'[o]) = {}
           /\ DOMAIN node' = Range(list'[m]) \cup Range(list'[o])

C12_Copy == [][C12_Step]_vars

\* A copy assignment has just replaced the two entries of a container by copies
\* of the three entries of another.
C12_Witness ==
    /\ last.op = "copy_assign"
    /\ last.a # <<last.m>>
    /\ last.was.size = 2
    /\ last.was.other = 3
    /\ Len(list[last.m]) = 3

\* C13: two containers are independent, a copy and its source in particular: a
\* set, emplace, erase (by key or by handle), sort, clear or merge applied to one
\* of them (the merge not taking the other as its argument) leaves the entries,
\* the order, the index and the nodes of the other unchanged.
C13_Step ==
    \A m \in Maps : \A o \in Maps \ {m} :
        (/\ last'.m = m
         /\ \/ last'.op \in {"set", "emplace", "erase_key", "erase_it", "sort", "clear"}
            \/ last'.op = "merge" /\ last'.a = <<m>>)
        => /\ list'[o] = list[o]
           /\ table'[o] = table[o]
           /\ \A n \in Range(list[o]) : n \in DOMAIN node' /\ node'[n] = node[n]
           /\ to_vector(Post, o) = to_vector(State, o)
           /\ \A k \in Keys : find(Post, o, k) = find(State, o, k)

C14_Step ==
    \A m \in Maps : \A o \in Maps \ {m} :
        (last'.op \in {"move_construct", "move_assign"} /\ last'.m = m /\ last'.a = <<o>>)
        => /\ list'[m] = list[o]
           /\ to_vector(Post, m) = to_vector(State, o)
           /\ I1(Post, m)
           /\ \A n \in Range(list[o]) :
                 /\ n \in DOMAIN node'
                 /\ node'[n] = node[n]
                 /\ n \in Range(list'[m])
                 /\ find(Post, m, node[n].first) = n
           /\ \A n \in Range(list[m]) : n \notin DOMAIN node'

C14_Move == [][C14_Step]_vars

\* A move assignment has just given a container that held one entry the two
\* entries of another.
C14_Witness ==
    /\ last.op = "move_assign"
    /\ last.a # <<last.m>>
    /\ last.was.size = 1
    /\ last.was.other = 2
    /\ Len(list[last.m]) = 2

\* find(k) on container m in state S is end() exactly when no entry of the
\* sequence has the key k, and else the one entry of the sequence whose key is k.
FindsEntry(S, m, k) ==
    /\ (find(S, m, k) = end(m)) <=> ~ \E i \in DOMAIN S.list[m] : S.node[S.list[m][i]].first = k
    /\ find(S, m, k) # end(m) =>
          /\ find(S, m, k) \in Range(S.list[m])
          /\ S.node[find(S, m, k)].first = k
          /\ \A n \in Range(S.list[m]) : S.node[n].first = k => n = find(S, m, k)

\* The step stores a value for key k of container m from the container it takes
\* as `other`: a merge, a copy or a move from another container that has k.
TakesFrom(m, k) ==
    /\ last'.m = m
    /\ last'.op \in {"merge", "copy_construct", "copy_assign", "move_construct", "move_assign"}
    /\ last'.a[1] # m
    /\ find(State, last'.a[1], k) # end(last'.a[1])

\* C15: find(k) returns end() exactly when k is not a key of the container, and
\* otherwise the unique entry whose key is k, holding the value most recently
\* stored for k: by set, by emplace, or by a merge (copy, move) from a container
\* that has k; no other operation changes the value find(k) shows.
C15_Step ==
    \A m \in Maps, k \in Keys :
        find(Post, m, k) # end(m) =>
              IF last'.m = m /\ last'.op = "set" /\ last'.a[1] = k
              THEN Post.node[find(Post, m, k)].second = last'.a[2]
              ELSE IF last'.m = m /\ last'.op = "emplace" /\ last'.a[1] = k
              THEN Post.node[find(Post, m, k)].second = Value(last'.a[2])
              ELSE IF TakesFrom(m, k)
              THEN Post.node[find(Post, m, k)].second =
                      node[find(State, last'.a[1], k)].second
              ELSE /\ find(State, m, k) # end(m)
                   /\ Post.node[find(Post, m, k)].second = node[find(State, m, k)].second

C15_Find == [](\A m \in Maps, k \in Keys : FindsEntry(State, m, k)) /\ [][C15_Step]_vars

\* An emplace has just overwritten the value of one of two entries, and a key is
\* absent: find returns the entry with the new value for the one, end() for the other.
C15_Witness ==
    /\ last.op = "emplace"
    /\ last.was.size = 2
    /\ Len(list[last.m]) = 2
    /\ find(State, last.m, last.a[1]) = last.ret
    /\ node[last.ret].second = Value(last.a[2])
    /\ \E k \in Keys : find(State, last.m, k) = end(last.m)

\* C16: positional and key access agree: in every reachable state, for every
\* position i < size(), at(i) and find(key of the i-th entry in traversal order)
\* are the same handle.
C16_AtFindAgree ==
    \A m \in Maps : \A i \in 0..(size(State, m) - 1) :
        /\ at(State, m, i) # end(m)
        /\ at(State, m, i) = find(State, m, keys(State, m)[i + 1])

\* The first of three entries has just been erased by key: the two that are left
\* are at positions 0 and 1.
C16_Witness ==
    /\ last.op = "erase_key"
    /\ last.was.size = 3
    /\ last.was.pos = 0
    /\ size(State, last.m) = 2
    /\ at(State, last.m, 1) = find(State, last.m, keys(State, last.m)[2])

\* C17: at(position) with position >= size() returns end(): on an empty and on
\* a non-empty container, for the positions just past the end and for the largest
\* position there is; at() is a function of the state and changes nothing.
C17_AtPastEnd ==
    \A m \in Maps :
        \A position \in (size(State, m)..(2 * MaxNodes)) \cup {2147483647} :
            at(State, m, position) = end(m)

\* An emplace has just made a container of one entry a container of two: position
\* 1 is an entry, position 2 is past the end.
C17_Witness ==
    /\ last.op = "emplace"
    /\ last.was.size = 1
    /\ size(State, last.m) = 2
    /\ at(State, last.m, 1) # end(last.m)
    /\ at(State, last.m, 2) = end(last.m)

\* C18: set(k, v) returns a handle h with h.key = k, h.value = v and h = find(k)
\* after the call; when k was absent h is a new node, at the tail; when k was
\* present h is the handle the index held for k before the call, and the
\* sequence is as it was.
C18_Step ==
    \A m \in Maps, key \in Keys, value \in Values :
        (last'.op = "set" /\ last'.m = m /\ last'.a = <<key, value>>)
        => LET h == last'.ret
           IN /\ h \in DOMAIN node'
              /\ node'[h] = [first |-> key, second |-> value]
              /\ find(Post, m, key) = h
              /\ IF key \notin DOMAIN table[m]
                 THEN /\ h \notin DOMAIN node
                      /\ list'[m] = Append(list[m], h)
                      /\ index_of(Post, m, h) = size(Post, m) - 1
                 ELSE /\ h = table[m][key]
                      /\ h = find(State, m, key)
                      /\ list'[m] = list[m]

C18_SetReturn == [][C18_Step]_vars

\* A set() has just inserted a third entry and returned the handle of the node at
\* the tail.
C18_Witness ==
    /\ last.op = "set"
    /\ last.was.size = 2
    /\ size(State, last.m) = 3
    /\ last.ret = list[last.m][3]
    /\ find(State, last.m, last.a[1]) = last.ret

\* C19: after sort(cmp), cmp a strict weak ordering over entries, the traversal
\* order is a permutation of the entries present before the call and is ordered
\* by cmp: for positions i < j, cmp(entry at j, entry at i) is false.
C19_Step ==
    \A m \in Maps, fun \in Comparators :
        (last'.op = "sort" /\ last'.m = m /\ last'.a = <<fun>>)
        => /\ Len(list'[m]) = Len(list[m])
           /\ Range(list'[m]) = Range(list[m])
           /\ \A n \in Range(list[m]) : node'[n] = node[n]
           /\ \A i, j \in DOMAIN list'[m] :
                 i < j => ~Less(fun, node'[list'[m][j]], node'[list'[m][i]])

C19_SortOrders == [][C19_Step]_vars

\* Three entries have just been sorted by key, ascending.
C19_Witness ==
    /\ last.op = "sort"
    /\ last.a = <<"key_lt">>
    /\ keys(State, last.m) = <<1, 2, 3>>

\* C20: sort is stable: two entries the comparator treats as equivalent (neither
\* cmp(x, y) nor cmp(y, x)) are after the sort in the order they were in before.
C20_Step ==
    \A m \in Maps, fun \in Comparators :
        (last'.op = "sort" /\ last'.m = m /\ last'.a = <<fun>>)
        => \A x, y \in Range(list[m]) :
              (~Less(fun, node[x], node[y]) /\ ~Less(fun, node[y], node[x]))
              => ((PosIn(list'[m], x) < PosIn(list'[m], y))
                     <=> (PosIn(list[m], x) < PosIn(list[m], y)))

C20_SortStable == [][C20_Step]_vars

\* Three entries have just been sorted by value, descending, and two of them
\* have the same value.
C20_Witness ==
    /\ last.op = "sort"
    /\ last.a = <<"val_gt">>
    /\ values(State, last.m) = <<1, 0, 0>>

\* C21: sort is idempotent: a second sort(cmp) with the same comparator, right
\* after the first, leaves the traversal order, the values, the index and the
\* handles exactly as the first sort left them.
C21_Step ==
    \A m \in Maps, fun \in Comparators :
        (/\ last.op = "sort" /\ last.m = m /\ last.a = <<fun>>
         /\ last'.op = "sort" /\ last'.m = m /\ last'.a = <<fun>>)
        => /\ list' = list
           /\ node' = node
           /\ table' = table
           /\ to_vector(Post, m) = to_vector(State, m)
           /\ \A k \in Keys : find(Post, m, k) = find(State, m, k)

C21_SortIdempotent == [][C21_Step]_vars

\* Three entries, two of them with the same value, have just been sorted by
\* value, ascending: the second sort acts from this state.
C21_Witness ==
    /\ last.op = "sort"
    /\ last.a = <<"val_lt">>
    /\ values(State, last.m) = <<0, 1, 1>>

\* C22: erase(k) of a key that is not present is a no-op: it returns end() and
\* leaves the entries, the values, the order, the index and the size unchanged.
C22_Step ==
    \A m \in Maps, key \in Keys :
        (/\ last'.op = "erase_key" /\ last'.m = m /\ last'.a = <<key>>
         /\ \A i \in DOMAIN list[m] : node[list[m][i]].first # key)
        => /\ last'.ret = end(m)
           /\ list' = list
           /\ node' = node
           /\ table' = table
           /\ size(Post, m) = size(State, m)
           /\ to_vector(Post, m) = to_vector(State, m)

C22_EraseAbsent == [][C22_Step]_vars

\* erase(k) of an absent key has just returned end() on a container of two entries.
C22_Witness ==
    /\ last.op = "erase_key"
    /\ last.was.pos = 0 - 1
    /\ last.was.size = 2
    /\ last.ret = end(last.m)
    /\ size(State, last.m) = 2

\* C23: for a handle h of a live entry of this container, with key k, erase(h)
\* gives the container state and the returned handle that erase(k) gives.
C23_Step ==
    \A m \in Maps :
        (last'.op = "erase_it" /\ last'.m = m /\ last'.a[1] \in Range(list[m]))
        => LET R == erase_key(State, m, node[last'.a[1]].first)
           IN /\ node' = R.node
              /\ list' = R.list
              /\ table' = R.table
              /\ last'.ret = R.ret

C23_EraseByHandle == [][C23_Step]_vars

\* The last of three entries has just been erased through its handle, and end()
\* was returned.
C23_Witness ==
    /\ last.op = "erase_it"
    /\ last.was.size = 3
    /\ last.was.pos = 2
    /\ last.ret = end(last.m)
    /\ size(State, last.m) = 2

\* C24: clear() empties the sequence and the index: afterwards size() is 0,
\* empty() is true, begin() is end(), find, has and count report every key as
\* absent and no handle issued before denotes a live entry; a set() that follows
\* creates a new entry at position 0, also for a key that was present.
C24_Step ==
    \A m \in Maps :
        /\ (last'.op = "clear" /\ last'.m = m)
           => /\ size(Post, m) = 0
              /\ empty(Post, m)
              /\ begin(Post, m) = end(m)
              /\ list'[m] = <<>>
              /\ table'[m] = EmptyFn
              /\ \A k \in Keys :
                    /\ find(Post, m, k) = end(m)
                    /\ ~has(Post, m, k)
                    /\ count(Post, m, k) = 0
              /\ \A n \in Range(list[m]) : n \notin DOMAIN node'
        /\ (last.op = "clear" /\ last.m = m /\ last'.op = "set" /\ last'.m = m)
           => /\ last'.ret \notin DOMAIN node
              /\ list'[m] = <<last'.ret>>
              /\ index_of(Post, m, last'.ret) = 0
              /\ node'[last'.ret] = [first |-> last'.a[1], second |-> last'.a[2]]
              /\ find(Post, m, last'.a[1]) = last'.ret

C24_Clear == [][C24_Step]_vars

\* A container of three entries has just been cleared: the set() of one of the
\* keys it held acts from this state.
C24_Witness ==
    /\ last.op = "clear"
    /\ last.was.size = 3
    /\ size(State, last.m) = 0
    /\ FreeNodes(State) # {}

C26_OriginalStep ==
    (hist.pure /\ last'.op = "sort" /\ last'.m = 1)
    => /\ keys(Post, 1) = [i \in DOMAIN hist.calls |-> hist.calls[i].key]
       /\ values(Post, 1) = [i \in DOMAIN hist.calls |-> hist.calls[i].value]
       /\ to_vector(Post, 1) =
             [i \in DOMAIN hist.calls |->
                 [first |-> hist.calls[i].key, second |-> hist.calls[i].value]]

Reorders(m) ==
    /\ last'.m = m
    /\ last'.op \in {"sort", "copy_construct", "copy_assign", "move_construct", "move_assign"}

\* C26: keys(), values() and to_vector() are in the order of insertion as long as
\* the container is not sorted: every step other than a sort (or a copy or move
\* into the container) keeps the entries that stay in the order they were in and
\* puts the entries it inserts after them, at the tail.
C26_Step ==
    \A m \in Maps :
        (list'[m] # list[m] /\ ~Reorders(m))
        => /\ SelectSeq(list'[m], LAMBDA n : n \in Range(list[m]))
                 = SelectSeq(list[m], LAMBDA n : n \in Range(list'[m]))
           /\ \A i, j \in DOMAIN list'[m] :
                 (i < j /\ list'[m][i] \notin Range(list[m])) => list'[m][j] \notin Range(list[m])
           /\ \A n \in Range(list[m]) \cap Range(list'[m]) : node'[n].first = node[n].first
           /\ keys(Post, m) = [i \in DOMAIN list'[m] |-> node'[list'[m][i]].first]

C27_Step ==
    \A m \in Maps :
        /\ (last'.op = "front" /\ last'.m = m)
           => last'.ret = IF size(State, m) = 0 THEN end(m) ELSE at(State, m, 0)
        /\ (last'.op = "back" /\ last'.m = m)
           => last'.ret = IF size(State, m) = 0 THEN end(m)
                          ELSE at(State, m, size(State, m) - 1)

C27_FrontBack == [][C27_Step]_vars

\* C28: index_of and at are inverse on live entries: for every handle h of a
\* live entry of the container index_of(h) is the number of entries before it and
\* at(index_of(h)) = h; for every i < size(), index_of(at(i)) = i; and
\* index_of(end()) = size().
C28_IndexOfAt ==
    \A m \in Maps :
        /\ index_of(State, m, end(m)) = size(State, m)
        /\ \A h \in Range(list[m]) :
              /\ index_of(State, m, h) =
                    Cardinality({i \in DOMAIN list[m] : i < PosIn(list[m], h)})
              /\ at(State, m, index_of(State, m, h)) = h
        /\ \A i \in 0..(size(State, m) - 1) : index_of(State, m, at(State, m, i)) = i

\* Three entries have just been sorted by value, descending: each handle has the
\* position the sort gave it.
C28_Witness ==
    /\ last.op = "sort"
    /\ last.a = <<"val_gt">>
    /\ values(State, last.m) = <<1, 1, 0>>
    /\ index_of(State, last.m, at(State, last.m, 2)) = 2

\* C29: emplace(k, args...) is equivalent to set(k, Value(args...)): from the
\* same state, and given the same node by the allocator, both leave the same
\* sequence and the same index and return the same handle, on the insert path and
\* on the update path.
C29_Step ==
    \A m \in Maps :
        /\ (last'.op = "emplace" /\ last'.m = m)
           => LET key == last'.a[1]
                  n   == IF key \in DOMAIN table[m] THEN 0 ELSE last'.ret
                  R   == set(State, m, key, Value(last'.a[2]), n)
              IN /\ n \in AllocFor(m, key)
                 /\ node' = R.node
                 /\ list' = R.list
                 /\ table' = R.table
                 /\ last'.ret = R.ret
        /\ (last'.op = "set" /\ last'.m = m)
           => LET key == last'.a[1]
                  n   == IF key \in DOMAIN table[m] THEN 0 ELSE last'.ret
                  R   == emplace(State, m, key, <<last'.a[2]>>, n)
              IN /\ node' = R.node
                 /\ list' = R.list
                 /\ table' = R.table
                 /\ last'.ret = R.ret

C29_EmplaceIsSet == [][C29_Step]_vars

\* An emplace with the argument 1 has just inserted the first entry of a
\* container.
C29_Witness ==
    /\ last.op = "emplace"
    /\ last.a[2] = <<1>>
    /\ last.was.size = 0
    /\ size(State, last.m) = 1
    /\ node[last.ret].second = 1

\* C30: in every reachable state and for every key k, has(k), count(k) = 1 and
\* find(k) # end() agree, and count(k) is 0 or 1; has(k) is true right after
\* set(k, _), false right after erase(k), and false for every key right after
\* clear().
C30_Membership ==
    /\ \A m \in Maps : \A k \in Keys :
          /\ count(State, m, k) \in {0, 1}
          /\ has(State, m, k) <=> (count(State, m, k) = 1)
          /\ has(State, m, k) <=> (find(State, m, k) # end(m))
    /\ last.op = "set" =>
          /\ has(State, last.m, last.a[1])
          /\ count(State, last.m, last.a[1]) = 1
    /\ last.op = "erase_key" =>
          /\ ~ has(State, last.m, last.a[1])
          /\ count(State, last.m, last.a[1]) = 0
    /\ last.op = "clear" =>
          \A k \in Keys : ~ has(State, last.m, k) /\ count(State, last.m, k) = 0

\* erase(2) has just removed the middle entry of a container that held the keys
\* 1, 2 and 3: has(2) is now false while has(1) and has(3) stay true.
C30_Witness ==
    /\ last.op = "erase_key"
    /\ last.a = <<2>>
    /\ last.was.size = 3
    /\ ~ has(State, last.m, 2)
    /\ has(State, last.m, 1)
    /\ count(State, last.m, 3) = 1

\* C31: forward traversal from begin() visits every entry exactly once in sequence
\* order and reaches end() after exactly size() advances (and not before); reverse
\* traversal from rbegin() reaches rend() after exactly size() advances and visits
\* the same entries in the reverse of the forward order.
C31_Traversal ==
    \A m \in Maps :
        /\ \A i \in 0..(size(State, m) - 1) :
              /\ advance(State, begin(State, m), i) = list[m][i + 1]
              /\ advance(State, begin(State, m), i) # end(m)
              /\ radvance(State, m, rbegin(State, m), i) # rend(State, m)
              /\ rderef(State, m, radvance(State, m, rbegin(State, m), i))
                    = advance(State, begin(State, m), size(State, m) - 1 - i)
        /\ \A i, j \in 0..(size(State, m) - 1) :
              advance(State, begin(State, m), i) = advance(State, begin(State, m), j) => i = j
        /\ advance(State, begin(State, m), size(State, m)) = end(m)
        /\ radvance(State, m, rbegin(State, m), size(State, m)) = rend(State, m)

\* A container of three entries that a sort by key descending has just reordered:
\* the reverse traversal starts at the entry the forward traversal ends with.
C31_Witness ==
    /\ last.op = "sort"
    /\ last.a = <<"key_gt">>
    /\ size(State, last.m) = 3
    /\ keys(State, last.m) = <<3, 2, 1>>
    /\ node[rderef(State, last.m, rbegin(State, last.m))].first = 1
    /\ node[advance(State, begin(State, last.m), 2)].first = 1

\* C32: the documented scenario holds step by step: from the empty container,
\* set(a,1), set(b,2), set(c,3), set(c,4) give the order [a,b,c] with the values
\* [1,2,4]; set(d,5) and erase(c) give the order [a,b,d] with the values [1,2,5];
\* the sort by key descending gives the order [d,b,a]; the sort by key ascending
\* gives the order [a,b,d]; after both sorts a, b, d are still mapped to 1, 2, 5.
\* (The sorts of the scenario are those made while d is in the container.)
C32_Scenario ==
    /\ After("set", <<3, 3>>) =>
          keys(State, 1) = <<1, 2, 3>> /\ values(State, 1) = <<1, 2, 3>>
    /\ After("set", <<3, 4>>) =>
          keys(State, 1) = <<1, 2, 3>> /\ values(State, 1) = <<1, 2, 4>>
    /\ After("set", <<4, 5>>) =>
          keys(State, 1) = <<1, 2, 3, 4>> /\ values(State, 1) = <<1, 2, 4, 5>>
    /\ After("erase_key", <<3>>) =>
          keys(State, 1) = <<1, 2, 4>> /\ values(State, 1) = <<1, 2, 5>>
    /\ After("sort", <<"key_gt">>) /\ last.was.size = 3 =>
          keys(State, 1) = <<4, 2, 1>> /\ values(State, 1) = <<5, 2, 1>>
    /\ After("sort", <<"key_lt">>) /\ last.was.size = 3 =>
          keys(State, 1) = <<1, 2, 4>> /\ values(State, 1) = <<1, 2, 5>>
    /\ last.op = "sort" /\ last.was.size = 3 =>
          /\ node[find(State, 1, 1)].second = 1
          /\ node[find(State, 1, 2)].second = 2
          /\ node[find(State, 1, 4)].second = 5
          /\ find(State, 1, 3) = end(1)

\* The end of the scenario: the sort by key ascending has been made on the
\* container that still holds a, b and d.
C32_Witness ==
    /\ After("sort", <<"key_lt">>)
    /\ last.was.size = 3
    /\ has(State, 1, 4)
    /\ to_vector(State, 1) = <<[first |-> 1, second |-> 1], [first |-> 2, second |-> 2],
                               [first |-> 4, second |-> 5]>>

\* The calls that only read the container.
Queries ==
    {"find", "at", "has", "count", "size", "empty", "index_of", "front", "back",
     "keys", "values", "to_vector", "begin", "end"}

\* C33: the sequence order changes only through sort, erase and inserting calls.
\* A query (find, at, has, count, size, empty, index_of, front, back, keys,
\* values, to_vector, begin, end) leaves the nodes, the sequence and the index as
\* they were, so every handle denotes what it denoted; a set or emplace on a key
\* that is present leaves the sequence and the index as they were; and an entry
\* that stays in its container changes position only in a sort or an erase.
C33_Step ==
    /\ last'.op \in Queries => node' = node /\ list' = list /\ table' = table
    /\ \A m \in Maps :
          (/\ last'.op \in {"set", "emplace"} /\ last'.m = m
           /\ last'.a[1] \in DOMAIN table[m])
          => /\ list' = list
             /\ table' = table
             /\ DOMAIN node' = DOMAIN node
             /\ \A n \in Range(list[m]) : index_of(Post, m, n) = index_of(State, m, n)
    /\ \A m \in Maps : \A n \in Range(list[m]) \cap Range(list'[m]) :
          index_of(Post, m, n) # index_of(State, m, n)
          => last'.m = m /\ last'.op \in {"sort", "erase_key", "erase_it"}

C33_OrderFrame == [][C33_Step]_vars

\* index_of() has just been asked for the last of three entries.
C33_Witness ==
    /\ last.op = "index_of"
    /\ last.ret = 2
    /\ size(State, last.m) = 3
    /\ last.a[1] = list[last.m][3]

\* C34: set(k, v) touches only the entry for k: every entry of the container with
\* another key keeps its node (handle), its key and value, and its place among the
\* other entries that were there; the size grows by exactly one when k is inserted
\* and stays when k is updated; the other container is not touched.
C34_Step ==
    \A m \in Maps :
        (last'.op = "set" /\ last'.m = m)
        => LET k == last'.a[1]
           IN /\ \A n \in Range(list[m]) :
                    node[n].first # k
                    => /\ n \in Range(list'[m])
                       /\ node'[n] = node[n]
                       /\ find(Post, m, node[n].first) = n
              /\ SelectSeq(list'[m], LAMBDA n : node'[n].first # k)
                    = SelectSeq(list[m], LAMBDA n : node[n].first # k)
              /\ size(Post, m) = IF k \in DOMAIN table[m] THEN size(State, m)
                                 ELSE size(State, m) + 1
              /\ \A o \in Maps \ {m} :
                    /\ list'[o] = list[o]
                    /\ table'[o] = table[o]
                    /\ \A n \in Range(list[o]) : node'[n] = node[n]

C34_SetFrame == [][C34_Step]_vars

\* A set() has just rewritten, with another value, the last of two entries.
C34_Witness ==
    /\ last.op = "set"
    /\ last.was.size = 2
    /\ size(State, last.m) = 2
    /\ last.ret = list[last.m][2]
    /\ node[list[last.m][1]].second # last.a[2]

\* The handle of the entry the erase just made removed, in a container that
\* started with its entries in the nodes 1..size.
ErasedHandle == CHOOSE n \in 1..last.was.size : n \notin Range(list[last.m])

\* C35: erasing key k and then calling set(k, v) creates a new entry at the tail
\* of the sequence (not at k's former position, when k had a successor) with a
\* new handle: the handle the erased entry had before the erase is not the handle
\* the set returns, denotes no live entry afterwards, and is not what find(k)
\* returns afterwards.
C35_Step ==
    (/\ last.op = "erase_key" /\ last.was.pos >= 0
     /\ last'.op = "set" /\ last'.m = last.m /\ last'.a[1] = last.a[1])
    => LET m == last.m
           k == last.a[1]
       IN /\ list'[m] = Append(list[m], last'.ret)
          /\ index_of(Post, m, find(Post, m, k)) = size(Post, m) - 1
          /\ (last.was.pos < size(State, m)
                => index_of(Post, m, find(Post, m, k)) # last.was.pos)
          /\ last'.ret # ErasedHandle
          /\ ErasedHandle \notin DOMAIN node'
          /\ find(Post, m, k) # ErasedHandle

C35_EraseThenSetSameKey == [][C35_Step]_vars

\* C36: copy assignment and move assignment of a container to itself leave it
\* unchanged (same nodes, sequence and index); assignment from a different
\* container first clears the destination, so every handle obtained from the
\* destination before denotes no live entry afterwards, whatever its key.
C36_Step ==
    \A m \in Maps, o \in Maps :
        (last'.op \in {"copy_assign", "move_assign"} /\ last'.m = m /\ last'.a = <<o>>)
        => IF m = o
           THEN node' = node /\ list' = list /\ table' = table
           ELSE \A h \in Range(list[m]) : h \notin DOMAIN node'

C36_Assignment == [][C36_Step]_vars

\* C37: merging a container into itself, m.merge(std::move(m)), rewrites each
\* entry with its own value (the loop changes nothing) and then clears the
\* argument, which is the container: it ends up empty, with size 0, an empty
\* sequence and an empty index and its nodes destroyed, not unchanged.
C37_Step ==
    \A m \in Maps :
        (last'.op = "merge" /\ last'.m = m /\ last'.a = <<m>>)
        => /\ merge_loop(State, m, m, 1, <<>>).node = node
           /\ merge_loop(State, m, m, 1, <<>>).list = list
           /\ merge_loop(State, m, m, 1, <<>>).table = table
           /\ size(Post, m) = 0
           /\ list'[m] = <<>>
           /\ table'[m] = EmptyFn
           /\ \A n \in Range(list[m]) : n \notin DOMAIN node'
           /\ \A k \in Keys : find(Post, m, k) = end(m)
           /\ \A o \in Maps \ {m} :
                 /\ list'[o] = list[o]
                 /\ table'[o] = table[o]
                 /\ \A n \in Range(list[o]) : node'[n] = node[n]

C37_SelfMerge == [][C37_Step]_vars

\* A container of three entries has just been merged into itself and is empty.
C37_Witness ==
    /\ last.op = "merge"
    /\ last.a = <<last.m>>
    /\ last.was.size = 3
    /\ last.was.other = 3
    /\ size(State, last.m) = 0

\* C38: erase(handle) selects its victim by the key read through the handle, not
\* by the handle's node.  Given a handle into the other container whose key k is
\* present in this container, this container's own entry for k is removed from
\* its sequence and its index, I1 keeps holding in it, and the other container
\* (the handle's entry included) is not modified; given a handle whose key is
\* absent from this container, nothing changes and this container's end() is
\* returned.
C38_Step ==
    \A m \in Maps : \A o \in Maps \ {m} :
        (last'.op = "erase_it" /\ last'.m = m /\ last'.a[1] \in Range(list[o]))
        => LET h == last'.a[1]
               k == node[h].first
           IN IF k \in DOMAIN table[m]
              THEN /\ list'[m] = Without(list[m], table[m][k])
                   /\ table'[m] = Drop(table[m], {k})
                   /\ node' = Drop(node, {table[m][k]})
                   /\ find(Post, m, k) = end(m)
                   /\ size(Post, m) = size(State, m) - 1
                   /\ I1(Post, m)
                   /\ list'[o] = list[o]
                   /\ table'[o] = table[o]
                   /\ find(Post, o, k) = h
                   /\ I1(Post, o)
              ELSE /\ node' = node
                   /\ list' = list
                   /\ table' = table
                   /\ last'.ret = end(m)

C38_EraseForeignHandle == [][C38_Step]_vars

\* An erase through a handle of the other container has just removed this
\* container's entry of the handle's key; the handle's own entry is still live.
C38_Witness ==
    /\ last.op = "erase_it"
    /\ last.was.pos >= 0
    /\ size(State, last.m) = last.was.size - 1
    /\ \E o \in Maps \ {last.m} :
          /\ last.a[1] \in Range(list[o])
          /\ find(State, o, node[last.a[1]].first) = last.a[1]
          /\ find(State, last.m, node[last.a[1]].first) = end(last.m)

\* C39: a caller cannot make the index and the sequence disagree through a
\* handle: after any write through a handle the container gave out, I1 holds:
\* the index and the sequence hold the same keys and every index key is the key
\* stored in the node the index names for it.
C39_HandleWrites ==
    last.op \in {"write_first", "write_second"} => I1(State, last.m)

====
